---- MODULE Spec2Model ----
(***************************************************************************)
(* docs/sphinx/conf.py: the Sphinx configuration of the Python             *)
(* Elasticsearch client.  Sphinx executes the file once, top to bottom, in *)
(* a fresh namespace.  The model executes it one statement at a time: pc   *)
(* is the line of the next statement, conf is the namespace the file       *)
(* builds.  The environment is the system clock read at line 39 and the    *)
(* elasticsearch distribution imported at line 20.                         *)
(***************************************************************************)
EXTENDS Integers, Sequences, FiniteSets, TLC

VARIABLES pc, conf, error, clock, ticks, installed

vars == <<pc, conf, error, clock, ticks, installed>>

\* ---------------------------------------------------------------- bounds
\* number of new-year rollovers of the system clock in one behaviour
MaxTicks == 2

\* years the system clock may show when Sphinx starts
StartYears == {1970, 1999, 2009, 2026, 2099}

\* ----------------------------------------------------------- environment
\* what `import elasticsearch` finds: nothing importable, a module without
\* __versionstr__, or a module exposing it
NoAttrs == [a \in {} |-> ""]
Libraries ==
    { [importable |-> FALSE, attrs |-> NoAttrs],
      [importable |-> TRUE,  attrs |-> NoAttrs],
      [importable |-> TRUE,  attrs |-> ("__versionstr__" :> "8.19.0")],
      [importable |-> TRUE,  attrs |-> ("__versionstr__" :> "9.1.0")] }

\* ------------------------------------------------------ string formatting
DigitChars == <<"0", "1", "2", "3", "4", "5", "6", "7", "8", "9">>

\* mutant: a two-digit year
RECURSIVE PyFormatD_TwoDigit(_)
PyFormatD_TwoDigit(n) ==
    LET m == n % 100
    IN  IF m < 10 THEN <<DigitChars[m + 1]>>
        ELSE <<DigitChars[(m \div 10) + 1], DigitChars[(m % 10) + 1]>>

\* "%d" applied to a non-negative int: its decimal digits, most significant
\* first, no padding
RECURSIVE PyFormatD(_)
PyFormatD(n) ==
    IF n < 10 THEN <<DigitChars[n + 1]>>
    ELSE PyFormatD(n \div 10) \o <<DigitChars[(n % 10) + 1]>>

\* fmt % arg for a format string whose only conversion is %d
RECURSIVE PyFormat(_, _)
PyFormat(fmt, arg) ==
    IF fmt = <<>> THEN <<>>
    ELSE IF Len(fmt) >= 2 /\ fmt[1] = "%" /\ fmt[2] = "d"
         THEN PyFormatD(arg) \o PyFormat(SubSeq(fmt, 3, Len(fmt)), arg)
         ELSE <<fmt[1]>> \o PyFormat(Tail(fmt), arg)

\* the literal "%d, Elasticsearch B.V" of line 39
CopyrightFormat ==
    <<"%", "d", ",", " ", "E", "l", "a", "s", "t", "i", "c", "s", "e", "a",
      "r", "c", "h", " ", "B", ".", "V">>

\* ------------------------------------------------------------- statements
\* name = value in the module namespace; control moves to the next statement
Assign(name, value, next) ==
    /\ conf' = (name :> value) @@ conf
    /\ pc' = next
    /\ UNCHANGED <<error, clock, ticks, installed>>

\* an uncaught exception ends the execution of the file
Raise(exc) ==
    /\ pc' = "failed"
    /\ error' = exc
    /\ UNCHANGED <<conf, clock, ticks, installed>>

Init ==
    /\ pc = "18"
    /\ conf = NoAttrs
    /\ error = "None"
    /\ clock \in StartYears
    /\ ticks = 0
    /\ installed \in Libraries

\* import datetime
Stmt18 ==
    /\ pc = "18"
    /\ Assign("datetime", "module datetime", "20")

\* mutant: the extensions list is set before the import of the library
Stmt20_ExtensionsFirst ==
    /\ pc = "20"
    /\ IF installed.importable
       THEN /\ conf' = ("elasticsearch" :> installed.attrs) @@
                       ("extensions" :> <<"sphinx.ext.autodoc",
                          "sphinx.ext.doctest", "sphinx.ext.intersphinx">>) @@ conf
            /\ pc' = "22"
            /\ UNCHANGED <<error, clock, ticks, installed>>
       ELSE /\ conf' = ("extensions" :> <<"sphinx.ext.autodoc",
                          "sphinx.ext.doctest", "sphinx.ext.intersphinx">>) @@ conf
            /\ pc' = "failed"
            /\ error' = "ModuleNotFoundError"
            /\ UNCHANGED <<clock, ticks, installed>>

\* import elasticsearch
Stmt20 ==
    /\ pc = "20"
    /\ IF installed.importable
       THEN /\ conf' = ("elasticsearch" :> installed.attrs) @@ conf
            /\ pc' = "22"
            /\ UNCHANGED <<error, clock, ticks, installed>>
       ELSE Raise("ModuleNotFoundError")

\* mutant: cross-project references not enabled
Stmt22_NoIntersphinx ==
    /\ pc = "22"
    /\ Assign("extensions", <<"sphinx.ext.autodoc", "sphinx.ext.doctest">>, "24")

Stmt22 ==
    /\ pc = "22"
    /\ Assign("extensions",
           <<"sphinx.ext.autodoc", "sphinx.ext.doctest", "sphinx.ext.intersphinx">>, "24")

Stmt24 ==
    /\ pc = "24"
    /\ Assign("autoclass_content", "both", "26")

Stmt26 ==
    /\ pc = "26"
    /\ Assign("autodoc_typehints", "description", "29")

Stmt29 ==
    /\ pc = "29"
    /\ Assign("templates_path", <<"_templates">>, "32")

Stmt32 ==
    /\ pc = "32"
    /\ Assign("source_suffix", ".rst", "35")

Stmt35 ==
    /\ pc = "35"
    /\ Assign("master_doc", "index", "38")

Stmt38 ==
    /\ pc = "38"
    /\ Assign("project", "Python Elasticsearch client", "39")

\* copyright = "%d, Elasticsearch B.V" % datetime.date.today().year
Stmt39 ==
    /\ pc = "39"
    /\ Assign("copyright", PyFormat(CopyrightFormat, clock), "41")

\* mutant: a missing attribute is replaced by a placeholder
Stmt41_Fallback ==
    /\ pc = "41"
    /\ IF "__versionstr__" \in DOMAIN conf["elasticsearch"]
       THEN Assign("version", conf["elasticsearch"]["__versionstr__"], "42")
       ELSE Assign("version", "unknown", "42")

\* version = elasticsearch.__versionstr__
Stmt41 ==
    /\ pc = "41"
    /\ IF "__versionstr__" \in DOMAIN conf["elasticsearch"]
       THEN Assign("version", conf["elasticsearch"]["__versionstr__"], "42")
       ELSE Raise("AttributeError")

\* mutant: release is a hard-coded string
Stmt42_Literal ==
    /\ pc = "42"
    /\ Assign("release", "8.19.0", "44")

\* release = version
Stmt42 ==
    /\ pc = "42"
    /\ Assign("release", conf["version"], "44")

\* mutant: the assignment goes to the wrong name
Stmt44_WrongName ==
    /\ pc = "44"
    /\ Assign("project", "sphinx", "46")

Stmt44 ==
    /\ pc = "44"
    /\ Assign("pygments_style", "sphinx", "46")

Stmt46 ==
    /\ pc = "46"
    /\ Assign("html_theme", "sphinx_rtd_theme", "47")

Stmt47 ==
    /\ pc = "47"
    /\ Assign("html_static_path", <<"_static">>, "48")

Stmt48 ==
    /\ pc = "48"
    /\ Assign("html_css_files", <<"css/custom.css">>, "50")

\* mutant: the elastic-transport inventory is missing
Stmt50_PythonOnly ==
    /\ pc = "50"
    /\ Assign("intersphinx_mapping",
           ("python" :> <<"https://docs.python.org/3", "None">>),
           "done")

Stmt50 ==
    /\ pc = "50"
    /\ Assign("intersphinx_mapping",
           ("python" :> <<"https://docs.python.org/3", "None">>) @@
           ("elastic-transport" :>
               <<"https://elastic-transport-python.readthedocs.io/en/latest", "None">>),
           "done")

\* ------------------------------------------------------------ environment
\* the calendar year rolls over
ClockTick ==
    /\ ticks < MaxTicks
    /\ clock' = clock + 1
    /\ ticks' = ticks + 1
    /\ UNCHANGED <<pc, conf, error, installed>>

\* the distribution on disk is installed, removed or replaced; a module
\* object already imported is not affected
Reinstall ==
    /\ \E lib \in Libraries \ {installed} : installed' = lib
    /\ UNCHANGED <<pc, conf, error, clock, ticks>>

Next ==
    \/ Stmt18 \/ Stmt20 \/ Stmt22 \/ Stmt24 \/ Stmt26 \/ Stmt29 \/ Stmt32
    \/ Stmt35 \/ Stmt38 \/ Stmt39 \/ Stmt41 \/ Stmt42 \/ Stmt44 \/ Stmt46
    \/ Stmt47 \/ Stmt48 \/ Stmt50
    \/ ClockTick \/ Reinstall

Spec == Init /\ [][Next]_vars

\* ------------------------------------------------------------ properties
Loaded == pc = "done"
Failed == pc = "failed"
Bound(name) == name \in DOMAIN conf

\* the names the file defines for Sphinx (everything but the two imports)
ConfigNames ==
    {"extensions", "autoclass_content", "autodoc_typehints", "templates_path",
     "source_suffix", "master_doc", "project", "copyright", "version",
     "release", "pygments_style", "html_theme", "html_static_path",
     "html_css_files", "intersphinx_mapping"}

\* the configuration names bound by lines 22-39, before the version is read
NamesBeforeVersion ==
    {"extensions", "autoclass_content", "autodoc_typehints", "templates_path",
     "source_suffix", "master_doc", "project", "copyright"}

Range(seq) == {seq[i] : i \in DOMAIN seq}

\* reading a decimal numeral back, independently of PyFormatD
IsDigit(c) == \E d \in 1..10 : DigitChars[d] = c
DigitValue(c) == (CHOOSE d \in 1..10 : DigitChars[d] = c) - 1
RECURSIVE DecimalValue(_)
DecimalValue(s) ==
    IF Len(s) = 1 THEN DigitValue(s[1])
    ELSE 10 * DecimalValue(SubSeq(s, 1, Len(s) - 1)) + DigitValue(s[Len(s)])

CopyrightSuffix ==
    <<",", " ", "E", "l", "a", "s", "t", "i", "c", "s", "e", "a", "r", "c",
      "h", " ", "B", ".", "V">>

\* c is the decimal numeral of y, without sign or leading zero, followed by
\* ", Elasticsearch B.V"
IsYearCopyright(c, y) ==
    \E k \in 1..Len(c) :
        /\ \A i \in 1..k : IsDigit(c[i])
        /\ (k > 1 => c[1] # "0")
        /\ DecimalValue(SubSeq(c, 1, k)) = y
        /\ SubSeq(c, k + 1, Len(c)) = CopyrightSuffix

\* C1: after a successful load, version and release both equal the
\* __versionstr__ of the imported elasticsearch module, so release = version.
C1_VersionAndRelease ==
    Loaded =>
        /\ "__versionstr__" \in DOMAIN conf["elasticsearch"]
        /\ conf["version"] = conf["elasticsearch"]["__versionstr__"]
        /\ conf["release"] = conf["elasticsearch"]["__versionstr__"]
        /\ conf["release"] = conf["version"]

C1_Witness ==
    /\ Loaded
    /\ conf["release"] = "9.1.0"
    /\ installed.attrs # conf["elasticsearch"]

\* C2: the step that executes line 39 binds copyright to the decimal
\* rendering of the year the clock shows at that step followed by
\* ", Elasticsearch B.V"; hence a bound copyright always carries a year the
\* clock has shown during this build.
C2_CopyrightYear ==
    /\ [][(pc = "39" /\ pc' # "39") =>
            /\ Bound("copyright")'
            /\ IsYearCopyright(conf'["copyright"], clock)]_vars
    /\ [](Bound("copyright") =>
            \E y \in (clock - ticks)..clock : IsYearCopyright(conf["copyright"], y))

C2_Witness ==
    /\ Bound("copyright")
    /\ IsYearCopyright(conf["copyright"], 2000)
    /\ clock = 2001

\* C3: intersphinx_mapping has exactly the keys "python" and
\* "elastic-transport", each mapped to its declared base URL paired with an
\* absent (None) inventory override.
C3_IntersphinxMapping ==
    Loaded =>
        /\ Bound("intersphinx_mapping")
        /\ DOMAIN conf["intersphinx_mapping"] = {"python", "elastic-transport"}
        /\ conf["intersphinx_mapping"]["python"][1] = "https://docs.python.org/3"
        /\ conf["intersphinx_mapping"]["elastic-transport"][1] =
               "https://elastic-transport-python.readthedocs.io/en/latest"
        /\ \A k \in DOMAIN conf["intersphinx_mapping"] :
               /\ Len(conf["intersphinx_mapping"][k]) = 2
               /\ conf["intersphinx_mapping"][k][2] = "None"

C3_Witness ==
    /\ Loaded
    /\ "elastic-transport" \in DOMAIN conf["intersphinx_mapping"]

\* C4: once bound, extensions lists exactly sphinx.ext.autodoc,
\* sphinx.ext.doctest and sphinx.ext.intersphinx, each once; and whenever a
\* non-empty intersphinx_mapping is bound, sphinx.ext.intersphinx is enabled.
C4_Extensions ==
    /\ Bound("extensions") =>
          /\ Len(conf["extensions"]) = 3
          /\ Range(conf["extensions"]) =
               {"sphinx.ext.autodoc", "sphinx.ext.doctest", "sphinx.ext.intersphinx"}
    /\ (Bound("intersphinx_mapping") /\ DOMAIN conf["intersphinx_mapping"] # {}) =>
          /\ Bound("extensions")
          /\ "sphinx.ext.intersphinx" \in Range(conf["extensions"])

C4_Witness ==
    /\ Bound("extensions")
    /\ Bound("intersphinx_mapping")
    /\ DOMAIN conf["intersphinx_mapping"] # {}

\* C5: executing the import while the library is not importable, or line 41
\* while the imported module has no __versionstr__, ends the load with the
\* exception uncaught and binds nothing; a failed load has neither version
\* nor release bound, and a successful load has both equal to the module's
\* __versionstr__.
C5_UnavailableVersionFails ==
    /\ [][/\ (pc = "20" /\ pc' # "20" /\ ~installed.importable) =>
                (pc' = "failed" /\ error' = "ModuleNotFoundError" /\ conf' = conf)
          /\ (pc = "41" /\ pc' # "41"
                /\ "__versionstr__" \notin DOMAIN conf["elasticsearch"]) =>
                (pc' = "failed" /\ error' = "AttributeError" /\ conf' = conf)]_vars
    /\ [](Failed => (error # "None" /\ ~Bound("version") /\ ~Bound("release")))
    /\ []((Bound("version") \/ Bound("release") \/ Loaded) =>
            /\ error = "None"
            /\ "__versionstr__" \in DOMAIN conf["elasticsearch"]
            /\ conf["version"] = conf["elasticsearch"]["__versionstr__"]
            /\ (Bound("release") =>
                  conf["release"] = conf["elasticsearch"]["__versionstr__"]))

C5_Witness ==
    /\ Failed
    /\ error = "ModuleNotFoundError"
    /\ ~Bound("elasticsearch")

\* C6: a name, once bound, keeps its value for the rest of the behaviour
\* (each is assigned exactly once), and after the load has completed no step
\* of the clock or of the installed library changes the configuration or
\* restarts the load.
C6_StaticOnceRead ==
    [][/\ \A n \in DOMAIN conf : n \in DOMAIN conf' /\ conf'[n] = conf[n]
       /\ Loaded => (conf' = conf /\ Loaded')]_vars

C6_Witness ==
    /\ Loaded
    /\ ~IsYearCopyright(conf["copyright"], clock)
    /\ installed.attrs # conf["elasticsearch"]
    /\ ticks = MaxTicks

\* C7 as stated: whenever the load has failed, no configuration value is
\* bound.
C7_Original ==
    Failed => DOMAIN conf \cap ConfigNames = {}

\* C7 as amended: a load that failed at the import has bound no
\* configuration value; a load that failed at line 41 for want of
\* __versionstr__ has bound exactly the values of lines 22-39 (extensions
\* through copyright) and none of version, release, theme, static paths,
\* stylesheets or the cross-reference mapping.
C7_FailedLoadBindings ==
    Failed =>
        /\ error \in {"ModuleNotFoundError", "AttributeError"}
        /\ (error = "ModuleNotFoundError" => DOMAIN conf \cap ConfigNames = {})
        /\ (error = "AttributeError" =>
               DOMAIN conf \cap ConfigNames = NamesBeforeVersion)

C7_Witness ==
    /\ Failed
    /\ error = "AttributeError"
    /\ Bound("copyright")
    /\ ~Bound("html_theme")

====
